---- MODULE Spec2Model ----
\* OneHaven decision engine: the deal decision core (backend/app of the
\* bootstrap script src/unnamed/part_014) as a state machine over the
\* database tables, with the handlers of the routers as actions.
\*
\* Units.  Money held by the tables is in whole dollars; the outputs of
\* run_underwriting are in cents (round(x, 2)); ratios are in thousandths
\* (round(x, 3)); percentages are in hundredths; the rent rule percentages are
\* in thousandths; interest_rate is in basis points per year.  Floating point
\* is modelled by fixed point with truncation.
EXTENDS Integers, Sequences, FiniteSets, TLC

VARIABLES properties, deals, rent_assumptions, jurisdiction_rules,
          underwriting_results, call,
          snapshot, evaluation, enrichment, budget, budget_lock, workers,
          memCache, inflight, requests, abortRef, view, server, now

\* the tables an evaluation reads
input_tables == <<properties, deals, rent_assumptions, jurisdiction_rules>>

\* the state of the batch pipeline and of its budget tracker
pipeline_vars == <<snapshot, evaluation, enrichment, budget, budget_lock, workers>>

\* the browser tab: the module state of lib/api.ts, the calls of request(), the
\* pages' AbortController refs and React state, the backend's data and the clock
frontend_vars == <<memCache, inflight, requests, abortRef, view, server, now>>

vars == <<properties, deals, rent_assumptions, jurisdiction_rules,
          underwriting_results, call,
          snapshot, evaluation, enrichment, budget, budget_lock, workers,
          memCache, inflight, requests, abortRef, view, server, now>>

\* ---------------------------------------------------------------- config.py
max_price == 150000
min_bedrooms == 2
min_inventory == 80
rent_rule_min_pct == 13
rent_rule_target_pct == 15
vacancy_rate == 5
maintenance_rate == 10
management_rate == 8
capex_rate == 5
insurance_monthly == 150
taxes_monthly == 300
utilities_monthly == 0
target_monthly_cashflow == 400
target_roi == 15
dscr_min == 1200

\* Optional[...] = None of the models and schemas
None == -1

\* the None of a row lookup (db.get, db.scalar)
NoRow == [none |-> TRUE]

\* float("inf"): larger than every finite value of the model
Inf == 2000000000

\* the ZeroDivisionError of a float division
ZeroDivisionError == -2000000000

\* ------------------------------------------------------------------ bounds
\* evaluations of one run
MaxResults == 2

\* ----------------------------------------------- frontend/src/lib/api.ts
\* the pages that load through request()
Pages == {"Dashboard", "Properties", "PropertyView"}

\* the path each page loads: api.dashboardProperties({limit: 50}) for the
\* Dashboard and the Properties page, api.propertyBundle(1) for PropertyView
path_of(page) ==
    IF page = "PropertyView" THEN "/properties/1/bundle"
    ELSE "/dashboard/properties?limit=50"

\* the cacheTtlMs the two api functions pass, in milliseconds
cacheTtlMs_of(page) == IF page = "PropertyView" THEN 2000 ELSE 3000

\* init?.cacheTtlMs ?? (method === "GET" ? 4_000 : 0) of a call without cacheTtlMs
default_ttl(method) == IF method = "GET" THEN 4000 ELSE 0

\* the path of the action PropertyView.doAction posts (api.enrichProperty)
action_path == "/rent/enrich?property_id=1&strategy=section8"

\* bodyKey of a request without a string body (undefined), and of one with
no_body == <<>>
body_of(text) == <<text>>

\* cacheKey(method, path, body): `${method}:${path}:${body ?? ""}`
cacheKey(method, path, body) == <<method, path, IF body = no_body THEN "" ELSE body[1]>>

\* the keys of the GETs of the pages
GetKeys == {cacheKey("GET", path_of(page), no_body) : page \in Pages}

\* memCache.get(key) of a key the map does not hold; inflight holds the number
\* of the call whose promise is registered for a key, or None
undefined == [undefined |-> TRUE]

\* how a promise of request() stands: pending, fulfilled with the response
\* data, rejected with the DOMException named AbortError of an aborted fetch,
\* or rejected with the Error thrown for a response that is not ok
Pending == [name |-> "pending", value |-> None]
AbortError == [name |-> "AbortError", value |-> None]
HttpError == [name |-> "Error", value |-> None]

\* const memCache = new Map(); const inflight = new Map(); no page has loaded
FrontendIdle ==
    /\ memCache = [k \in GetKeys |-> undefined]
    /\ inflight = [k \in GetKeys |-> None]
    /\ requests = <<>>
    /\ abortRef = [page \in Pages |-> None]
    /\ view = [page \in Pages |-> [data |-> None, err |-> FALSE]]
    /\ server = 0
    /\ now = 0

\* --------------------------------------------------- domain/underwriting.py
\* fixed-point scale of (1 + r) ** n
PowScale == 10000

RECURSIVE Pow(_, _)
\* (1 + r) ** n, scaled by PowScale, r scaled by PowScale
Pow(r, n) ==
    IF n = 0 THEN PowScale
    ELSE LET h == Pow(r, n \div 2)
             sq == (h * h) \div PowScale
         IN IF n % 2 = 0 THEN sq ELSE (sq * (PowScale + r)) \div PowScale

\* the payment formula without the early return for principal <= 0
_monthly_mortgage_payment_unguarded(principal, annual_rate, term_years) ==
    LET r == annual_rate \div 12
        n == term_years * 12
    IN IF r <= 0
       THEN IF n = 0 THEN ZeroDivisionError ELSE (principal * 100) \div n
       ELSE LET p == Pow(r, n)
            IN IF p - PowScale = 0 THEN ZeroDivisionError
               ELSE (principal * ((r * p * 100) \div (p - PowScale))) \div 10000

\* principal in dollars, annual_rate in basis points, result in cents
_monthly_mortgage_payment(principal, annual_rate, term_years) ==
    IF principal <= 0 THEN 0
    ELSE LET r == annual_rate \div 12
             n == term_years * 12
         IN IF r <= 0
            THEN IF n = 0 THEN ZeroDivisionError ELSE (principal * 100) \div n
            ELSE LET p == Pow(r, n)
                 IN IF p - PowScale = 0 THEN ZeroDivisionError
                    ELSE (principal * ((r * p * 100) \div (p - PowScale))) \div 10000

\* a division guarded against a = 0 only
rent_for_nonzero(cents, a) == IF a # 0 THEN (cents * 100) \div a ELSE Inf

\* (cents / a) if a > 1e-9 else float("inf"), a in hundredths
rent_for(cents, a) == IF a > 0 THEN (cents * 100) \div a ELSE Inf

run_underwriting(inp, roi) ==
    LET all_in_cost == inp.purchase_price + inp.rehab
        down_payment == all_in_cost * inp.down_payment_pct
        loan == all_in_cost * 100 - down_payment
        loan_amount == IF loan > 0 THEN loan \div 100 ELSE 0
        mortgage_payment == _monthly_mortgage_payment(loan_amount, inp.interest_rate, inp.term_years)
        effective_gross == inp.gross_rent * (100 - inp.vacancy_rate)
        var_opex == inp.gross_rent * inp.maintenance_rate
                    + inp.gross_rent * inp.management_rate
                    + inp.gross_rent * inp.capex_rate
        fixed_opex == (inp.insurance_monthly + inp.taxes_monthly + inp.utilities_monthly) * 100
        operating_expenses == var_opex + fixed_opex
        noi == effective_gross - operating_expenses
        cash_flow == noi - mortgage_payment
        dscr == IF mortgage_payment > 0 THEN (noi * 1000) \div mortgage_payment ELSE Inf
        cash_invested == down_payment
        cash_on_cash == IF cash_invested > 0 THEN (cash_flow * 12 * 10) \div (cash_invested \div 100) ELSE Inf
        a == (100 - inp.vacancy_rate) - (inp.maintenance_rate + inp.management_rate + inp.capex_rate)
        b == fixed_opex + mortgage_payment
        break_even_rent == rent_for(b, a)
        required_monthly_cash_flow == (roi * cash_invested) \div (12 * 100)
        min_rent_for_target_roi ==
            rent_for(fixed_opex + mortgage_payment + required_monthly_cash_flow, a)
    IN IF mortgage_payment = ZeroDivisionError
       THEN [raised |-> TRUE]
       ELSE [raised |-> FALSE,
             mortgage_payment |-> mortgage_payment,
             operating_expenses |-> operating_expenses,
             noi |-> noi,
             cash_flow |-> cash_flow,
             dscr |-> dscr,
             cash_on_cash |-> cash_on_cash,
             break_even_rent |-> break_even_rent,
             min_rent_for_target_roi |-> min_rent_for_target_roi]

\* ------------------------------------------------ domain/decision_engine.py
Decision(decision, score, reasons) ==
    [decision |-> decision, score |-> score, reasons |-> reasons]

Min(x, y) == IF x <= y THEN x ELSE y
Max(x, y) == IF x >= y THEN x ELSE y

_rent_used(rent_market, rent_ceiling) ==
    IF rent_market = None /\ rent_ceiling = None THEN None
    ELSE IF rent_market = None THEN rent_ceiling
    ELSE IF rent_ceiling = None THEN rent_market
    ELSE Min(rent_market, rent_ceiling)

\* one "reasons.append(...); score += delta" step of evaluate_deal_rules
Scored(acc, delta, reason) ==
    [score |-> acc.score + delta, reasons |-> Append(acc.reasons, reason)]

\* a rent rule that scores the target like the minimum
rent_rule_scored_flat(acc, rent, asking_price) ==
    IF rent = None
    THEN Scored(acc, -20, "Missing rent inputs (need market rent and/or FMR/ceiling)")
    ELSE IF rent * 1000 >= asking_price * rent_rule_target_pct
    THEN Scored(acc, 5, "Meets 1.5% target rent rule")
    ELSE Scored(acc, 5, "Meets 1.3% minimum rent rule")

\* the rent rule of evaluate_deal_rules for a rent that is missing or at
\* least the minimum
rent_rule_scored(acc, rent, asking_price) ==
    IF rent = None
    THEN Scored(acc, -20, "Missing rent inputs (need market rent and/or FMR/ceiling)")
    ELSE IF rent * 1000 >= asking_price * rent_rule_target_pct
    THEN Scored(acc, 15, "Meets 1.5% target rent rule")
    ELSE Scored(acc, 5, "Meets 1.3% minimum rent rule")

\* a banding that passes from 70
band_from_70(score) ==
    IF score >= 70 THEN "PASS"
    ELSE IF score >= 55 THEN "REVIEW"
    ELSE "REJECT"

\* the decision banding of evaluate_deal_rules
band(score) ==
    IF score >= 75 THEN "PASS"
    ELSE IF score >= 55 THEN "REVIEW"
    ELSE "REJECT"

\* evaluate_deal_rules after its two hard rejects: the scored rules
scored_rules(ctx) ==
    LET s0 == [score |-> 50, reasons |-> <<>>]
        s1 == IF ctx.has_garage
              THEN Scored(s0, -5, "Garage present (rehab/maintenance risk flag)")
              ELSE s0
        rent == _rent_used(ctx.rent_market, ctx.rent_ceiling)
    IN IF rent # None /\ rent * 1000 < ctx.asking_price * rent_rule_min_pct
       THEN Decision("REJECT", 0, <<"Fails 1.3% rule">>)
       ELSE
       LET s2 == rent_rule_scored(s1, rent, ctx.asking_price)
           s3 == IF ctx.rent_ceiling # None /\ ctx.rent_market # None
                    /\ ctx.rent_market > ctx.rent_ceiling
                 THEN Scored(s2, -5, "Market rent exceeds Section 8 ceiling (rent will be capped)")
                 ELSE s2
           s4 == IF ctx.inventory_count = None
                 THEN Scored(s3, -5, "Missing inventory count proxy")
                 ELSE IF ctx.inventory_count < min_inventory
                 THEN Scored(s3, -15, "Inventory proxy low")
                 ELSE Scored(s3, 10, "Inventory proxy healthy")
           s5 == IF ctx.starbucks_minutes = None THEN s4
                 ELSE IF ctx.starbucks_minutes <= 10
                 THEN Scored(s4, 10, "Starbucks proxy good (<= 10 minutes)")
                 ELSE Scored(s4, -5, "Starbucks proxy weak (> 10 minutes)")
           score == Max(0, Min(100, s5.score))
           decision == band(score)
       IN Decision(decision, score, s5.reasons)

\* evaluate_deal_rules without its price gate
evaluate_deal_rules_no_price_gate(ctx) ==
    IF ctx.bedrooms < min_bedrooms
    THEN Decision("REJECT", 0, <<"Bedrooms below minimum">>)
    ELSE scored_rules(ctx)

\* evaluate_deal_rules with hard rejects that record no reason
evaluate_deal_rules_silent_reject(ctx) ==
    IF ctx.asking_price > max_price
    THEN Decision("REJECT", 0, <<>>)
    ELSE IF ctx.bedrooms < min_bedrooms
    THEN Decision("REJECT", 0, <<>>)
    ELSE scored_rules(ctx)

evaluate_deal_rules(ctx) ==
    IF ctx.asking_price > max_price
    THEN Decision("REJECT", 0, <<"Price exceeds max">>)
    ELSE IF ctx.bedrooms < min_bedrooms
    THEN Decision("REJECT", 0, <<"Bedrooms below minimum">>)
    ELSE scored_rules(ctx)

\* -------------------------------------------------------- routers/evaluate.py
\* the index of the first row of a table among the matching indices; 0 if none
FirstIndex(matching) ==
    IF matching = {} THEN 0
    ELSE CHOOSE i \in matching : \A j \in matching : i <= j

\* ra = db.scalar(select(RentAssumption).where(property_id == prop.id))
rent_assumption_of(property_id) ==
    LET i == FirstIndex({k \in 1..Len(rent_assumptions) :
                            rent_assumptions[k].property_id = property_id})
    IN IF i = 0 THEN NoRow ELSE rent_assumptions[i]

\* jr = db.scalar(select(JurisdictionRule).where(city == prop.city, state == prop.state))
jurisdiction_rule_of(city) ==
    LET i == FirstIndex({k \in 1..Len(jurisdiction_rules) :
                            jurisdiction_rules[k].city = city})
    IN IF i = 0 THEN NoRow ELSE jurisdiction_rules[i]

\* rent_market of evaluate_deal
rent_market_of(ra) == IF ra = NoRow THEN None ELSE ra.market_rent_estimate

\* rent_ceiling of evaluate_deal
rent_ceiling_of(ra) ==
    IF ra = NoRow THEN None
    ELSE IF ra.approved_rent_ceiling # None THEN ra.approved_rent_ceiling
    ELSE ra.section8_fmr

\* ctx = DealContext(...) of evaluate_deal
DealContext(deal, prop, ra) ==
    [asking_price |-> deal.asking_price,
     bedrooms |-> prop.bedrooms,
     has_garage |-> prop.has_garage,
     rent_market |-> rent_market_of(ra),
     rent_ceiling |-> rent_ceiling_of(ra),
     inventory_count |-> IF ra = NoRow THEN None ELSE ra.inventory_count,
     starbucks_minutes |-> IF ra = NoRow THEN None ELSE ra.starbucks_minutes]

\* gross_rent_used taken from the market rent whenever there is one
gross_rent_used_raw_market(rent_market, rent_ceiling) ==
    IF rent_market = None THEN rent_ceiling ELSE rent_market

\* gross_rent_used of evaluate_deal, when a rent signal exists
gross_rent_used_of(rent_market, rent_ceiling) ==
    IF rent_market = None THEN rent_ceiling
    ELSE IF rent_ceiling = None THEN rent_market
    ELSE Min(rent_market, rent_ceiling)

\* uw_in = UnderwritingInputs(...) of evaluate_deal
UnderwritingInputs(deal, gross_rent_used) ==
    [purchase_price |-> IF deal.estimated_purchase_price # None
                        THEN deal.estimated_purchase_price ELSE deal.asking_price,
     rehab |-> deal.rehab_estimate,
     down_payment_pct |-> deal.down_payment_pct,
     interest_rate |-> deal.interest_rate,
     term_years |-> deal.term_years,
     gross_rent |-> gross_rent_used,
     vacancy_rate |-> vacancy_rate,
     maintenance_rate |-> maintenance_rate,
     management_rate |-> management_rate,
     capex_rate |-> capex_rate,
     insurance_monthly |-> insurance_monthly,
     taxes_monthly |-> taxes_monthly,
     utilities_monthly |-> utilities_monthly]

\* the gates with a DSCR gate that only downgrades PASS to REVIEW
underwriting_gates_soft_dscr(d, uw_out) ==
    IF uw_out.dscr < dscr_min
    THEN Decision(IF d.decision # "REJECT" THEN "REVIEW" ELSE "REJECT",
                  Min(d.score, 45), Append(d.reasons, "DSCR below minimum"))
    ELSE IF uw_out.cash_flow < target_monthly_cashflow * 100
    THEN Decision(IF d.decision # "REJECT" THEN "REVIEW" ELSE "REJECT",
                  Min(d.score, 65), Append(d.reasons, "Cash flow below target"))
    ELSE d

\* the gates with a cash-flow gate that rejects
underwriting_gates_hard_cash_flow(d, uw_out) ==
    IF uw_out.dscr < dscr_min
    THEN Decision("REJECT", Min(d.score, 45), Append(d.reasons, "DSCR below minimum"))
    ELSE IF uw_out.cash_flow < target_monthly_cashflow * 100
    THEN Decision("REJECT", Min(d.score, 65), Append(d.reasons, "Cash flow below target"))
    ELSE d

\* the gates with a DSCR gate that takes an unbounded DSCR for a failing one
underwriting_gates_unbounded_fails(d, uw_out) ==
    IF uw_out.dscr < dscr_min \/ uw_out.dscr = Inf
    THEN Decision("REJECT", Min(d.score, 45), Append(d.reasons, "DSCR below minimum"))
    ELSE IF uw_out.cash_flow < target_monthly_cashflow * 100
    THEN Decision(IF d.decision # "REJECT" THEN "REVIEW" ELSE "REJECT",
                  Min(d.score, 65), Append(d.reasons, "Cash flow below target"))
    ELSE d

\* the gates with a cash-flow gate that sets REVIEW whatever the decision was
underwriting_gates_review_always(d, uw_out) ==
    IF uw_out.dscr < dscr_min
    THEN Decision("REJECT", Min(d.score, 45), Append(d.reasons, "DSCR below minimum"))
    ELSE IF uw_out.cash_flow < target_monthly_cashflow * 100
    THEN Decision("REVIEW", Min(d.score, 65), Append(d.reasons, "Cash flow below target"))
    ELSE d

\* the DSCR gate and the cash-flow gate of evaluate_deal
underwriting_gates(d, uw_out) ==
    IF uw_out.dscr < dscr_min
    THEN Decision("REJECT", Min(d.score, 45), Append(d.reasons, "DSCR below minimum"))
    ELSE IF uw_out.cash_flow < target_monthly_cashflow * 100
    THEN Decision(IF d.decision # "REJECT" THEN "REVIEW" ELSE "REJECT",
                  Min(d.score, 65), Append(d.reasons, "Cash flow below target"))
    ELSE d

\* a jurisdiction gate that downgrades PASS and leaves the score
jurisdiction_gate_uncapped(d, jr) ==
    IF jr # NoRow /\ jr.processing_days # None /\ jr.processing_days >= 45
    THEN Decision(IF d.decision = "PASS" THEN "REVIEW" ELSE d.decision,
                  d.score,
                  Append(d.reasons, "Jurisdiction processing delay risk"))
    ELSE d

\* the jurisdiction gate of evaluate_deal
jurisdiction_gate(d, jr) ==
    IF jr # NoRow /\ jr.processing_days # None /\ jr.processing_days >= 45
    THEN Decision(IF d.decision = "PASS" THEN "REVIEW" ELSE d.decision,
                  IF d.decision = "PASS" THEN Min(d.score, 70) ELSE d.score,
                  Append(d.reasons, "Jurisdiction processing delay risk"))
    ELSE d

\* the missing-rent row without the reason evaluate_deal appends
MissingRentResult_no_reason(deal_id, d) ==
    [deal_id |-> deal_id,
     decision |-> "REJECT",
     score |-> 0,
     reasons |-> d.reasons,
     gross_rent_used |-> 0,
     mortgage_payment |-> 0,
     operating_expenses |-> 0,
     noi |-> 0,
     cash_flow |-> 0,
     dscr |-> 0,
     cash_on_cash |-> 0,
     break_even_rent |-> 0,
     min_rent_for_target_roi |-> 0]

\* result = UnderwritingResult(...) of the missing-rent branch
MissingRentResult(deal_id, d) ==
    [deal_id |-> deal_id,
     decision |-> "REJECT",
     score |-> 0,
     reasons |-> Append(d.reasons, "Missing rent data -> cannot underwrite"),
     gross_rent_used |-> 0,
     mortgage_payment |-> 0,
     operating_expenses |-> 0,
     noi |-> 0,
     cash_flow |-> 0,
     dscr |-> 0,
     cash_on_cash |-> 0,
     break_even_rent |-> 0,
     min_rent_for_target_roi |-> 0]

\* result = UnderwritingResult(...) of the underwritten branch
UnderwrittenResult(deal_id, final, gross_rent_used, uw_out) ==
    [deal_id |-> deal_id,
     decision |-> final.decision,
     score |-> final.score,
     reasons |-> final.reasons,
     gross_rent_used |-> gross_rent_used,
     mortgage_payment |-> uw_out.mortgage_payment,
     operating_expenses |-> uw_out.operating_expenses,
     noi |-> uw_out.noi,
     cash_flow |-> uw_out.cash_flow,
     dscr |-> uw_out.dscr,
     cash_on_cash |-> uw_out.cash_on_cash,
     break_even_rent |-> uw_out.break_even_rent,
     min_rent_for_target_roi |-> uw_out.min_rent_for_target_roi]

\* the body of evaluate_deal for an existing deal: the HTTP status and,
\* with status 200, the row it adds to underwriting_results
evaluate_deal_result(deal_id) ==
    LET deal == deals[deal_id]
        prop == properties[deal.property_id]
        ra == rent_assumption_of(deal.property_id)
        rent_market == rent_market_of(ra)
        rent_ceiling == rent_ceiling_of(ra)
        d == evaluate_deal_rules(DealContext(deal, prop, ra))
    IN IF rent_market = None /\ rent_ceiling = None
       THEN [status |-> 200, row |-> MissingRentResult(deal_id, d)]
       ELSE
       LET gross_rent_used == gross_rent_used_of(rent_market, rent_ceiling)
           uw_out == run_underwriting(UnderwritingInputs(deal, gross_rent_used), target_roi)
       IN IF uw_out.raised
          THEN [status |-> 500]
          ELSE LET final == jurisdiction_gate(underwriting_gates(d, uw_out),
                                              jurisdiction_rule_of(prop.city))
               IN [status |-> 200,
                   row |-> UnderwrittenResult(deal_id, final, gross_rent_used, uw_out)]

\* a variant that keeps only the latest result of a deal
insert_result_latest_only(results, row) ==
    LET kept == SelectSeq(results, LAMBDA r : r.deal_id # row.deal_id)
    IN Append(kept, row)

\* db.add(result); db.commit(): the new row goes after the rows of the table
insert_result(results, row) == Append(results, row)

\* POST /evaluate/deal/{deal_id}.  rent_is_estimated is the caller's flag that
\* the rent data of the deal was estimated; the handler has no parameter and
\* DealContext no field for it.
evaluate_deal(deal_id, rent_is_estimated) ==
    /\ Len(underwriting_results) < MaxResults
    /\ IF deal_id \notin DOMAIN deals
       THEN /\ call' = [op |-> "evaluate_deal", deal_id |-> deal_id,
                        rent_is_estimated |-> rent_is_estimated, status |-> 404]
            /\ UNCHANGED underwriting_results
       ELSE IF deals[deal_id].property_id \notin DOMAIN properties
       THEN /\ call' = [op |-> "evaluate_deal", deal_id |-> deal_id,
                        rent_is_estimated |-> rent_is_estimated, status |-> 500]
            /\ UNCHANGED underwriting_results
       ELSE LET res == evaluate_deal_result(deal_id)
            IN /\ call' = [op |-> "evaluate_deal", deal_id |-> deal_id,
                           rent_is_estimated |-> rent_is_estimated, status |-> res.status]
               /\ underwriting_results' =
                      IF res.status = 200 THEN insert_result(underwriting_results, res.row)
                      ELSE underwriting_results
    /\ UNCHANGED <<frontend_vars, input_tables, pipeline_vars>>

\* ------------------------------------------------------------ input domains
Cities == {"Detroit", "Flint"}
BedroomsValues == {1, 3}
AskingPrices == {100000, 200000}
\* down_payment_pct, interest_rate, term_years of a deal
Financings == {<<20, 600, 30>>, <<0, 600, 30>>, <<100, 600, 30>>, <<20, 0, 30>>, <<20, 0, 0>>}
MarketRents == {None, 1200, 1500, 3200}
ApprovedCeilings == {None, 2000}
FmrValues == {None, 1800}
InventoryCounts == {None, 50, 100}
StarbucksMinutes == {None, 5, 15}
ProcessingDays == {None, 30, 45}
DealIds == {1}

PropertyRows ==
    [bedrooms : BedroomsValues, has_garage : BOOLEAN, city : Cities]

DealRows(property_ids) ==
    { [property_id |-> p, asking_price |-> a, estimated_purchase_price |-> None,
       rehab_estimate |-> 0, down_payment_pct |-> f[1], interest_rate |-> f[2],
       term_years |-> f[3]] : p \in property_ids, a \in AskingPrices, f \in Financings }

RentAssumptionRows(property_ids) ==
    [property_id : property_ids, market_rent_estimate : MarketRents,
     section8_fmr : FmrValues, approved_rent_ceiling : ApprovedCeilings,
     rent_reasonableness_comp : {None},
     inventory_count : InventoryCounts, starbucks_minutes : StarbucksMinutes]

JurisdictionRuleRows ==
    [city : {"Detroit"}, processing_days : ProcessingDays]

NoCall == [op |-> "none", deal_id |-> 0, rent_is_estimated |-> FALSE, status |-> 0]

\* --------------------------------------------------------- batch pipeline
\* The handlers behind POST /evaluate/snapshot/{id}, POST /rent/enrich/batch
\* and GET /rent/enrich/budget, and the budget tracker they share.

\* a non-numeric asking_price of an imported row
Malformed == -2

\* deals of a snapshot
SnapshotSize == 3

\* largest provider quota
MaxQuota == 3

\* concurrent enrichment calls
MaxWorkers == 3

NoEvaluation == [pc |-> "idle", pos |-> 0, total_deals |-> 0, pass_count |-> 0,
                 review_count |-> 0, reject_count |-> 0, errors |-> <<>>]

NoEnrichment == [pc |-> "idle", pos |-> 0, pending |-> <<>>, used_at_start |-> 0,
                 attempted |-> 0, enriched |-> 0, stopped_early |-> FALSE,
                 stop_reason |-> "none", errors |-> <<>>]

NoBudget == [used |-> 0, quota |-> 0]

PipelineIdle ==
    /\ snapshot = <<>>
    /\ evaluation = NoEvaluation
    /\ enrichment = NoEnrichment
    /\ budget = NoBudget
    /\ budget_lock = 0
    /\ workers = <<>>

\* ---- evaluate_snapshot(snapshot_id, strategy)
\* the per-row evaluation raises: malformed numeric input, or an error of
\* the underwriting
row_raises(deal_id) ==
    \/ deals[deal_id].asking_price = Malformed
    \/ deals[deal_id].property_id \notin DOMAIN properties
    \/ evaluate_deal_result(deal_id).status # 200

evaluate_snapshot_begin ==
    /\ evaluation.pc = "idle"
    /\ evaluation' = [NoEvaluation EXCEPT !.pc = "running", !.pos = 1,
                                          !.total_deals = Len(snapshot)]
    /\ UNCHANGED <<frontend_vars, input_tables, underwriting_results, call,
                   snapshot, enrichment, budget, budget_lock, workers>>

\* the loop body with a failure that ends the batch
evaluate_snapshot_row_aborting ==
    /\ evaluation.pc = "running"
    /\ evaluation.pos <= Len(snapshot)
    /\ LET deal_id == snapshot[evaluation.pos]
       IN IF row_raises(deal_id)
          THEN /\ evaluation' = [evaluation EXCEPT
                      !.pc = "done",
                      !.errors = Append(@, [deal_id |-> deal_id, message |-> "error"])]
               /\ UNCHANGED underwriting_results
          ELSE LET row == evaluate_deal_result(deal_id).row
               IN /\ underwriting_results' = Append(underwriting_results, row)
                  /\ evaluation' = [evaluation EXCEPT
                         !.pos = @ + 1,
                         !.pass_count = @ + (IF row.decision = "PASS" THEN 1 ELSE 0),
                         !.review_count = @ + (IF row.decision = "REVIEW" THEN 1 ELSE 0),
                         !.reject_count = @ + (IF row.decision = "REJECT" THEN 1 ELSE 0)]
    /\ UNCHANGED <<frontend_vars, input_tables, call, snapshot, enrichment, budget, budget_lock, workers>>

\* the loop body: evaluate the next deal of the snapshot; a failure of the
\* row is caught and recorded with the deal id
evaluate_snapshot_row ==
    /\ evaluation.pc = "running"
    /\ evaluation.pos <= Len(snapshot)
    /\ LET deal_id == snapshot[evaluation.pos]
       IN IF row_raises(deal_id)
          THEN /\ evaluation' = [evaluation EXCEPT
                      !.pos = @ + 1,
                      !.errors = Append(@, [deal_id |-> deal_id, message |-> "error"])]
               /\ UNCHANGED underwriting_results
          ELSE LET row == evaluate_deal_result(deal_id).row
               IN /\ underwriting_results' = Append(underwriting_results, row)
                  /\ evaluation' = [evaluation EXCEPT
                         !.pos = @ + 1,
                         !.pass_count = @ + (IF row.decision = "PASS" THEN 1 ELSE 0),
                         !.review_count = @ + (IF row.decision = "REVIEW" THEN 1 ELSE 0),
                         !.reject_count = @ + (IF row.decision = "REJECT" THEN 1 ELSE 0)]
    /\ UNCHANGED <<frontend_vars, input_tables, call, snapshot, enrichment, budget, budget_lock, workers>>

\* the loop is over: the summary is returned
evaluate_snapshot_end ==
    /\ evaluation.pc = "running"
    /\ evaluation.pos > Len(snapshot)
    /\ evaluation' = [evaluation EXCEPT !.pc = "done"]
    /\ UNCHANGED <<frontend_vars, input_tables, underwriting_results, call,
                   snapshot, enrichment, budget, budget_lock, workers>>

SnapshotAskingPrices == {100000, 200000, Malformed}
SnapshotFinancings == {<<100, 600, 30>>, <<20, 0, 0>>}

SnapshotDealRows ==
    { [property_id |-> 1, asking_price |-> a, estimated_purchase_price |-> None,
       rehab_estimate |-> 0, down_payment_pct |-> f[1], interest_rate |-> f[2],
       term_years |-> f[3]] : a \in SnapshotAskingPrices, f \in SnapshotFinancings }

SnapshotRentRows ==
    { [property_id |-> 1, market_rent_estimate |-> 3200, section8_fmr |-> None,
       approved_rent_ceiling |-> None, rent_reasonableness_comp |-> None,
       inventory_count |-> 100, starbucks_minutes |-> 5] }

\* an imported snapshot of SnapshotSize deals on one property, before or
\* after the rent of the property was stored
InitSnapshot ==
    /\ properties = <<[bedrooms |-> 3, has_garage |-> FALSE, city |-> "Detroit"]>>
    /\ deals \in [1..SnapshotSize -> SnapshotDealRows]
    /\ rent_assumptions \in {<<>>} \cup {<<ra>> : ra \in SnapshotRentRows}
    /\ jurisdiction_rules = <<>>
    /\ underwriting_results = <<>>
    /\ call = NoCall
    /\ snapshot = [k \in 1..SnapshotSize |-> k]
    /\ evaluation = NoEvaluation
    /\ enrichment = NoEnrichment
    /\ budget = NoBudget
    /\ budget_lock = 0
    /\ workers = <<>>
    /\ FrontendIdle

NextSnapshot ==
    \/ evaluate_snapshot_begin
    \/ evaluate_snapshot_row
    \/ evaluate_snapshot_end

SpecSnapshot == InitSnapshot /\ [][NextSnapshot]_vars

\* ---- BudgetTracker
\* the gate of an enrichment call
budget_available == budget.used < budget.quota

\* a tracker that counts nothing
record_call_uncounted(b) == b

\* the increment of the usage counter for an admitted call
record_call(b) == [b EXCEPT !.used = @ + 1]

\* GET /rent/enrich/budget
get_budget_usage == [used |-> budget.used, quota |-> budget.quota]

\* ---- enrich_batch(snapshot_id, limit, strategy)
\* a deal lacks sufficient rent data
needs_enrichment(deal_id) ==
    LET ra == rent_assumption_of(deals[deal_id].property_id)
    IN ra = NoRow \/ ra.market_rent_estimate = None

\* the deals of a sequence that satisfy Keep, in order
RECURSIVE SelectDeals(_, _)
SelectDeals(ids, keep) ==
    IF ids = <<>> THEN <<>>
    ELSE IF Head(ids) \in keep
    THEN <<Head(ids)>> \o SelectDeals(Tail(ids), keep)
    ELSE SelectDeals(Tail(ids), keep)

\* what the provider returns for a property
ProviderRent(property_id) ==
    [property_id |-> property_id, market_rent_estimate |-> 1500, section8_fmr |-> 1800,
     approved_rent_ceiling |-> None, rent_reasonableness_comp |-> None,
     inventory_count |-> None, starbucks_minutes |-> None]

\* the rent assumptions after the enrichment of a property is stored
enriched_rent_assumptions(property_id) ==
    LET i == FirstIndex({k \in 1..Len(rent_assumptions) :
                            rent_assumptions[k].property_id = property_id})
    IN IF i = 0
       THEN Append(rent_assumptions, ProviderRent(property_id))
       ELSE [rent_assumptions EXCEPT ![i].market_rent_estimate = 1500,
                                     ![i].section8_fmr = 1800]

enrich_batch_begin ==
    /\ enrichment.pc = "idle"
    /\ enrichment' = [NoEnrichment EXCEPT
           !.pc = "running", !.pos = 1, !.used_at_start = budget.used,
           !.pending = SelectDeals(snapshot, {id \in DOMAIN deals : needs_enrichment(id)})]
    /\ UNCHANGED <<frontend_vars, properties, deals, rent_assumptions, jurisdiction_rules,
                   underwriting_results, call, snapshot, evaluation,
                   budget, budget_lock, workers>>

\* the loop body without the budget gate
enrich_batch_row_ungated(provider_ok) ==
    /\ enrichment.pc = "running"
    /\ enrichment.pos <= Len(enrichment.pending)
    /\ LET deal_id == enrichment.pending[enrichment.pos]
       IN /\ budget' = record_call(budget)
          /\ IF provider_ok
             THEN /\ rent_assumptions' = enriched_rent_assumptions(deals[deal_id].property_id)
                  /\ enrichment' = [enrichment EXCEPT
                         !.pos = @ + 1, !.attempted = @ + 1, !.enriched = @ + 1]
             ELSE /\ enrichment' = [enrichment EXCEPT
                         !.pos = @ + 1, !.attempted = @ + 1,
                         !.errors = Append(@, [deal_id |-> deal_id, message |-> "provider error"])]
                  /\ UNCHANGED rent_assumptions
    /\ UNCHANGED <<frontend_vars, properties, deals, jurisdiction_rules, underwriting_results, call,
                   snapshot, evaluation, budget_lock, workers>>

\* the loop body: the next deal that needs enrichment is admitted against the
\* budget, the provider is called, and its answer is stored; a provider
\* failure is an error of the row; an exhausted budget stops the batch
enrich_batch_row(provider_ok) ==
    /\ enrichment.pc = "running"
    /\ enrichment.pos <= Len(enrichment.pending)
    /\ LET deal_id == enrichment.pending[enrichment.pos]
       IN IF ~budget_available
          THEN /\ enrichment' = [enrichment EXCEPT
                      !.pc = "done", !.stopped_early = TRUE,
                      !.stop_reason = "budget_exceeded"]
               /\ UNCHANGED <<budget, rent_assumptions>>
          ELSE /\ budget' = record_call(budget)
               /\ IF provider_ok
                  THEN /\ rent_assumptions' = enriched_rent_assumptions(deals[deal_id].property_id)
                       /\ enrichment' = [enrichment EXCEPT
                              !.pos = @ + 1, !.attempted = @ + 1, !.enriched = @ + 1]
                  ELSE /\ enrichment' = [enrichment EXCEPT
                              !.pos = @ + 1, !.attempted = @ + 1,
                              !.errors = Append(@, [deal_id |-> deal_id, message |-> "provider error"])]
                       /\ UNCHANGED rent_assumptions
    /\ UNCHANGED <<frontend_vars, properties, deals, jurisdiction_rules, underwriting_results, call,
                   snapshot, evaluation, budget_lock, workers>>

\* the loop is over: the summary is returned
enrich_batch_end ==
    /\ enrichment.pc = "running"
    /\ enrichment.pos > Len(enrichment.pending)
    /\ enrichment' = [enrichment EXCEPT !.pc = "done"]
    /\ UNCHANGED <<frontend_vars, properties, deals, rent_assumptions, jurisdiction_rules,
                   underwriting_results, call, snapshot, evaluation,
                   budget, budget_lock, workers>>

\* deals of a snapshot to enrich
EnrichSize == 4

\* the k-th smallest element of a set of numbers
Nth(set, k) == CHOOSE p \in set : Cardinality({q \in set : q <= p}) = k

\* a snapshot of EnrichSize deals, each on its own property; some of the
\* properties already have a rent assumption with a market rent
InitEnrich ==
    /\ properties = [k \in 1..EnrichSize |->
                        [bedrooms |-> 3, has_garage |-> FALSE, city |-> "Detroit"]]
    /\ deals = [k \in 1..EnrichSize |->
                   [property_id |-> k, asking_price |-> 100000,
                    estimated_purchase_price |-> None, rehab_estimate |-> 0,
                    down_payment_pct |-> 20, interest_rate |-> 600, term_years |-> 30]]
    /\ \E have \in SUBSET (1..EnrichSize), market \in {None, 1500} :
           rent_assumptions =
               [k \in 1..Cardinality(have) |->
                   [property_id |-> Nth(have, k),
                    market_rent_estimate |-> IF Nth(have, k) = 1 THEN market ELSE 1500,
                    section8_fmr |-> 1800, approved_rent_ceiling |-> None,
                    rent_reasonableness_comp |-> None,
                    inventory_count |-> None, starbucks_minutes |-> None]]
    /\ jurisdiction_rules = <<>>
    /\ underwriting_results = <<>>
    /\ call = NoCall
    /\ snapshot = [k \in 1..EnrichSize |-> k]
    /\ evaluation = NoEvaluation
    /\ enrichment = NoEnrichment
    /\ \E quota \in 0..MaxQuota, used \in 0..1 : budget = [used |-> used, quota |-> quota]
    /\ budget_lock = 0
    /\ workers = <<>>
    /\ FrontendIdle

NextEnrich ==
    \/ enrich_batch_begin
    \/ \E provider_ok \in BOOLEAN : enrich_batch_row(provider_ok)
    \/ enrich_batch_end

SpecEnrich == InitEnrich /\ [][NextEnrich]_vars

\* ---- concurrent enrichment calls on one BudgetTracker
\* Each call takes the tracker's mutex, checks used < quota, increments the
\* counter and releases the mutex; only then does it call the provider.

\* taking the mutex although another call holds it
budget_acquire_unlocked(w) ==
    /\ workers[w] = "ready"
    /\ workers' = [workers EXCEPT ![w] = "locked"]
    /\ UNCHANGED <<frontend_vars, properties, deals, rent_assumptions, jurisdiction_rules,
                   underwriting_results, call, snapshot, evaluation, enrichment,
                   budget, budget_lock>>

budget_acquire(w) ==
    /\ workers[w] = "ready"
    /\ budget_lock = 0
    /\ budget_lock' = w
    /\ workers' = [workers EXCEPT ![w] = "locked"]
    /\ UNCHANGED <<frontend_vars, properties, deals, rent_assumptions, jurisdiction_rules,
                   underwriting_results, call, snapshot, evaluation, enrichment, budget>>

\* the check of used < quota; a denied call releases the mutex
budget_check(w) ==
    /\ workers[w] = "locked"
    /\ IF budget_available
       THEN /\ workers' = [workers EXCEPT ![w] = "admitted"]
            /\ UNCHANGED budget_lock
       ELSE /\ workers' = [workers EXCEPT ![w] = "denied"]
            /\ budget_lock' = IF budget_lock = w THEN 0 ELSE budget_lock
    /\ UNCHANGED <<frontend_vars, properties, deals, rent_assumptions, jurisdiction_rules,
                   underwriting_results, call, snapshot, evaluation, enrichment, budget>>

\* the increment, and the release of the mutex
budget_increment(w) ==
    /\ workers[w] = "admitted"
    /\ budget' = record_call(budget)
    /\ budget_lock' = IF budget_lock = w THEN 0 ELSE budget_lock
    /\ workers' = [workers EXCEPT ![w] = "calling"]
    /\ UNCHANGED <<frontend_vars, properties, deals, rent_assumptions, jurisdiction_rules,
                   underwriting_results, call, snapshot, evaluation, enrichment>>

\* the provider answers the call, or fails
provider_return(w, provider_ok) ==
    /\ workers[w] = "calling"
    /\ workers' = [workers EXCEPT ![w] = IF provider_ok THEN "enriched" ELSE "failed"]
    /\ UNCHANGED <<frontend_vars, properties, deals, rent_assumptions, jurisdiction_rules,
                   underwriting_results, call, snapshot, evaluation, enrichment,
                   budget, budget_lock>>

InitBudget ==
    /\ properties = <<>>
    /\ deals = <<>>
    /\ rent_assumptions = <<>>
    /\ jurisdiction_rules = <<>>
    /\ underwriting_results = <<>>
    /\ call = NoCall
    /\ snapshot = <<>>
    /\ evaluation = NoEvaluation
    /\ enrichment = NoEnrichment
    /\ \E quota \in 0..MaxQuota : \E used \in 0..quota : budget = [used |-> used, quota |-> quota]
    /\ budget_lock = 0
    /\ workers = [w \in 1..MaxWorkers |-> "ready"]
    /\ FrontendIdle

NextBudget ==
    \E w \in 1..MaxWorkers :
        \/ budget_acquire(w)
        \/ budget_check(w)
        \/ budget_increment(w)
        \/ \E provider_ok \in BOOLEAN : provider_return(w, provider_ok)

SpecBudget == InitBudget /\ [][NextBudget]_vars

\* ------------------------------------------------------ intake and upsert
\* The handlers that fill the tables: POST /properties, POST /deals and
\* PUT /deals/property/{property_id}/rent.  The id of a row is its index in
\* the table; no handler deletes a row.

\* properties the intake may hold
MaxProperties == 2

\* deals the intake may hold
MaxDeals == 2

\* the columns of RentAssumption a payload may set
RentColumns ==
    {"market_rent_estimate", "section8_fmr", "approved_rent_ceiling",
     "rent_reasonableness_comp", "inventory_count", "starbucks_minutes"}

\* RentAssumption(property_id=property_id, **data): unset columns are NULL
RentAssumption(property_id, data) ==
    [c \in RentColumns \cup {"property_id"} |->
        IF c = "property_id" THEN property_id
        ELSE IF c \in DOMAIN data THEN data[c] ELSE None]

\* setattr(ra, k, v) for the fields of data, flushed on row: the UPDATE writes
\* the columns whose value differs from the one the session loaded
setattr_flush(row, loaded, data) ==
    [c \in DOMAIN row |->
        IF c \in DOMAIN data /\ data[c] # loaded[c] THEN data[c] ELSE row[c]]

\* the id of the row the select of upsert_rent finds, 0 for none
rent_assumption_id_of(property_id) ==
    FirstIndex({k \in 1..Len(rent_assumptions) :
                   rent_assumptions[k].property_id = property_id})

\* a commit on a table without the unique constraint
commit_rent_assumption_unconstrained(ra_id, loaded, property_id, data) ==
    IF ra_id = 0
    THEN [status |-> 200,
          rows |-> Append(rent_assumptions, RentAssumption(property_id, data))]
    ELSE [status |-> 200,
          rows |-> [rent_assumptions EXCEPT
                       ![ra_id] = setattr_flush(@, loaded, data)]]

\* db.commit() of upsert_rent: the INSERT of a second row of a property
\* violates uq_rent_assumptions_property and the request fails
commit_rent_assumption(ra_id, loaded, property_id, data) ==
    IF ra_id = 0
    THEN IF \E k \in 1..Len(rent_assumptions) :
                rent_assumptions[k].property_id = property_id
         THEN [status |-> 500, rows |-> rent_assumptions]
         ELSE [status |-> 200,
               rows |-> Append(rent_assumptions, RentAssumption(property_id, data))]
    ELSE [status |-> 200,
          rows |-> [rent_assumptions EXCEPT
                       ![ra_id] = setattr_flush(@, loaded, data)]]

\* PUT /deals/property/{property_id}/rent, one request running alone
upsert_rent(property_id, data) ==
    /\ IF property_id \notin DOMAIN properties
       THEN /\ call' = [op |-> "upsert_rent", property_id |-> property_id,
                        data |-> data, status |-> 404]
            /\ UNCHANGED rent_assumptions
       ELSE LET ra_id == rent_assumption_id_of(property_id)
                loaded == IF ra_id = 0 THEN NoRow ELSE rent_assumptions[ra_id]
                done == commit_rent_assumption(ra_id, loaded, property_id, data)
            IN /\ call' = [op |-> "upsert_rent", property_id |-> property_id,
                           data |-> data, status |-> done.status]
               /\ rent_assumptions' = done.rows
    /\ UNCHANGED <<frontend_vars, properties, deals, jurisdiction_rules, underwriting_results,
                   pipeline_vars>>

\* POST /properties
create_property(payload) ==
    /\ Len(properties) < MaxProperties
    /\ properties' = Append(properties, payload)
    /\ call' = [op |-> "create_property", id |-> Len(properties) + 1, status |-> 200]
    /\ UNCHANGED <<frontend_vars, deals, rent_assumptions, jurisdiction_rules, underwriting_results,
                   pipeline_vars>>

\* a create_deal that does not look the property up
create_deal_unchecked(payload) ==
    /\ Len(deals) < MaxDeals
    /\ deals' = Append(deals, payload)
    /\ call' = [op |-> "create_deal", property_id |-> payload.property_id,
                status |-> 200]
    /\ UNCHANGED <<frontend_vars, properties, rent_assumptions, jurisdiction_rules,
                   underwriting_results, pipeline_vars>>

\* POST /deals
create_deal(payload) ==
    /\ Len(deals) < MaxDeals
    /\ IF payload.property_id \notin DOMAIN properties
       THEN /\ call' = [op |-> "create_deal", property_id |-> payload.property_id,
                        status |-> 400]
            /\ UNCHANGED deals
       ELSE /\ deals' = Append(deals, payload)
            /\ call' = [op |-> "create_deal", property_id |-> payload.property_id,
                        status |-> 200]
    /\ UNCHANGED <<frontend_vars, properties, rent_assumptions, jurisdiction_rules,
                   underwriting_results, pipeline_vars>>

\* ------------------------------------------------------ concurrent upserts
\* upsert_rent requests of concurrent sessions; workers holds what each
\* session has read.  A request selects (property and rent assumption), and
\* commits in a later step; other requests run in between.

\* concurrent requests
MaxRequests == 2

IdleRequest == [pc |-> "idle"]

\* upsert_rent up to the select: 404 for a missing property
upsert_rent_select(w, property_id, data) ==
    /\ workers[w] = IdleRequest
    /\ IF property_id \notin DOMAIN properties
       THEN /\ call' = [op |-> "upsert_rent", property_id |-> property_id,
                        data |-> data, status |-> 404]
            /\ UNCHANGED workers
       ELSE LET ra_id == rent_assumption_id_of(property_id)
            IN /\ workers' = [workers EXCEPT ![w] =
                      [pc |-> "selected", property_id |-> property_id, data |-> data,
                       ra_id |-> ra_id,
                       loaded |-> IF ra_id = 0 THEN NoRow ELSE rent_assumptions[ra_id]]]
               /\ UNCHANGED call
    /\ UNCHANGED <<frontend_vars, input_tables, underwriting_results,
                   snapshot, evaluation, enrichment, budget, budget_lock>>

\* upsert_rent from db.add / setattr to the response
upsert_rent_commit(w) ==
    /\ workers[w] # IdleRequest
    /\ LET req == workers[w]
           done == commit_rent_assumption(req.ra_id, req.loaded, req.property_id, req.data)
       IN /\ rent_assumptions' = done.rows
          /\ call' = [op |-> "upsert_rent", property_id |-> req.property_id,
                      data |-> req.data, status |-> done.status]
    /\ workers' = [workers EXCEPT ![w] = IdleRequest]
    /\ UNCHANGED <<frontend_vars, properties, deals, jurisdiction_rules, underwriting_results,
                   snapshot, evaluation, enrichment, budget, budget_lock>>

ConcurrentRentPayloads ==
    { [market_rent_estimate |-> 1500], [approved_rent_ceiling |-> 2000] }

InitRent ==
    /\ properties = <<[bedrooms |-> 3, has_garage |-> FALSE, city |-> "Detroit"],
                       [bedrooms |-> 1, has_garage |-> TRUE, city |-> "Flint"]>>
    /\ deals = <<>>
    /\ rent_assumptions = <<>>
    /\ jurisdiction_rules = <<>>
    /\ underwriting_results = <<>>
    /\ call = NoCall
    /\ snapshot = <<>>
    /\ evaluation = NoEvaluation
    /\ enrichment = NoEnrichment
    /\ budget = NoBudget
    /\ budget_lock = 0
    /\ workers = [w \in 1..MaxRequests |-> IdleRequest]
    /\ FrontendIdle

NextRent ==
    \/ \E w \in 1..MaxRequests, property_id \in 1..3, data \in ConcurrentRentPayloads :
           upsert_rent_select(w, property_id, data)
    \/ \E w \in 1..MaxRequests : upsert_rent_commit(w)

SpecRent == InitRent /\ [][NextRent]_vars

\* ------------------------------------------------------------------ intake
\* Properties and deals are created in any order, from the empty database.
IntakeProperties ==
    { [bedrooms |-> 3, has_garage |-> FALSE, city |-> "Detroit"],
      [bedrooms |-> 1, has_garage |-> TRUE, city |-> "Flint"] }

\* payloads of create_deal, with property ids that may not exist
IntakeDeals ==
    { [property_id |-> p, asking_price |-> a, estimated_purchase_price |-> None,
       rehab_estimate |-> 0, down_payment_pct |-> 20, interest_rate |-> 600,
       term_years |-> 30] : p \in 1..(MaxProperties + 1), a \in {100000, 200000} }

InitIntake ==
    /\ properties = <<>>
    /\ deals = <<>>
    /\ rent_assumptions = <<>>
    /\ jurisdiction_rules = <<>>
    /\ underwriting_results = <<>>
    /\ call = NoCall
    /\ PipelineIdle
    /\ FrontendIdle

NextIntake ==
    \/ \E payload \in IntakeProperties : create_property(payload)
    \/ \E payload \in IntakeDeals : create_deal(payload)

SpecIntake == InitIntake /\ [][NextIntake]_vars

\* ------------------------------------------------------- evaluation history
\* One property with two deals on it; its rent assumption is upserted and
\* its deals are evaluated in any order.
HistoryRentPayloads ==
    { [market_rent_estimate |-> 3200, inventory_count |-> 100, starbucks_minutes |-> 5],
      [section8_fmr |-> 1800, rent_reasonableness_comp |-> 1300],
      [approved_rent_ceiling |-> 2000] }

HistoryDeals ==
    [k \in 1..2 |->
        [property_id |-> 1, asking_price |-> 100000, estimated_purchase_price |-> None,
         rehab_estimate |-> 0, down_payment_pct |-> IF k = 1 THEN 100 ELSE 20,
         interest_rate |-> 600, term_years |-> 30]]

InitHistory ==
    /\ properties = <<[bedrooms |-> 3, has_garage |-> FALSE, city |-> "Detroit"]>>
    /\ deals = HistoryDeals
    /\ rent_assumptions = <<>>
    /\ jurisdiction_rules = <<>>
    /\ underwriting_results = <<>>
    /\ call = NoCall
    /\ PipelineIdle
    /\ FrontendIdle

NextHistory ==
    \/ \E property_id \in 1..2, data \in HistoryRentPayloads :
           upsert_rent(property_id, data)
    \/ \E deal_id \in 1..3 : evaluate_deal(deal_id, FALSE)

SpecHistory == InitHistory /\ [][NextHistory]_vars

\* ------------------------------------------------- underwriting calculator
\* run_underwriting and the gates of evaluate_deal applied to inputs of any
\* financing and any rate structure.

\* vacancy, maintenance, management and capex rates: the configured ones, and
\* structures whose denominator a is 0 and negative
RateStructures == {<<5, 10, 8, 5>>, <<50, 30, 10, 10>>, <<60, 30, 10, 10>>}

UnderwritingInputSet ==
    { [purchase_price |-> 100000, rehab |-> rehab, down_payment_pct |-> dp,
       interest_rate |-> rate, term_years |-> term, gross_rent |-> rent,
       vacancy_rate |-> rs[1], maintenance_rate |-> rs[2],
       management_rate |-> rs[3], capex_rate |-> rs[4],
       insurance_monthly |-> insurance_monthly, taxes_monthly |-> taxes_monthly,
       utilities_monthly |-> utilities_monthly] :
      rehab \in {0, 20000}, dp \in {0, 20, 100, 120}, rate \in {0, 600},
      term \in {0, 30}, rent \in {1200, 3200}, rs \in RateStructures }

\* decisions of the rules engine the gates may receive
RulesDecisions ==
    { Decision("PASS", 85, <<"Meets 1.5% target rent rule">>),
      Decision("REVIEW", 60, <<"Meets 1.3% minimum rent rule">>),
      Decision("REJECT", 40, <<"Bedrooms below minimum">>) }

InitUnderwriting ==
    /\ call \in {[op |-> "inputs", inp |-> inp] : inp \in UnderwritingInputSet}
    /\ properties = <<>>
    /\ deals = <<>>
    /\ rent_assumptions = <<>>
    /\ jurisdiction_rules = <<>>
    /\ underwriting_results = <<>>
    /\ PipelineIdle
    /\ FrontendIdle

\* uw_out = run_underwriting(uw_in, target_roi=settings.target_roi)
underwrite ==
    /\ call.op = "inputs"
    /\ call' = [op |-> "run_underwriting", inp |-> call.inp,
                out |-> run_underwriting(call.inp, target_roi)]
    /\ UNCHANGED <<frontend_vars, input_tables, underwriting_results, pipeline_vars>>

\* the DSCR and cash-flow gates on the outputs, for a decision of the rules
gate(d) ==
    /\ call.op = "run_underwriting"
    /\ ~call.out.raised
    /\ call' = [op |-> "underwriting_gates", inp |-> call.inp, out |-> call.out,
                d |-> d, gated |-> underwriting_gates(d, call.out)]
    /\ UNCHANGED <<frontend_vars, input_tables, underwriting_results, pipeline_vars>>

NextUnderwriting == underwrite \/ \E d \in RulesDecisions : gate(d)

SpecUnderwriting == InitUnderwriting /\ [][NextUnderwriting]_vars

\* --------------------------------------------------------------- survivors
\* GET /deals/survivors over the results of a snapshot: two deals of the
\* three belong to the snapshot, the third is evaluated on its own.

\* largest limit of a query
MaxLimit == 2

\* the results a survivors query keeps
qualifies(id, decision, min_dscr, min_cashflow) ==
    /\ \E k \in 1..Len(snapshot) : snapshot[k] = underwriting_results[id].deal_id
    /\ underwriting_results[id].decision = decision
    /\ underwriting_results[id].dscr >= min_dscr
    /\ underwriting_results[id].cash_flow >= min_cashflow

RECURSIVE ranked(_)
\* the result ids by descending score, the earlier result first among equals
ranked(ids) ==
    IF ids = {} THEN <<>>
    ELSE LET best == CHOOSE i \in ids : \A j \in ids :
                         \/ underwriting_results[i].score > underwriting_results[j].score
                         \/ /\ underwriting_results[i].score = underwriting_results[j].score
                            /\ i <= j
         IN <<best>> \o ranked(ids \ {best})

\* a query that does not filter by snapshot
survivors_of_any_snapshot(decision, min_dscr, min_cashflow, limit) ==
    LET all == ranked({id \in 1..Len(underwriting_results) :
                          /\ underwriting_results[id].decision = decision
                          /\ underwriting_results[id].dscr >= min_dscr
                          /\ underwriting_results[id].cash_flow >= min_cashflow})
    IN SubSeq(all, 1, Min(limit, Len(all)))

\* the ids of the results the query returns, in rank order
survivors(decision, min_dscr, min_cashflow, limit) ==
    LET all == ranked({id \in 1..Len(underwriting_results) :
                          qualifies(id, decision, min_dscr, min_cashflow)})
    IN SubSeq(all, 1, Min(limit, Len(all)))

\* get_survivors(snapshot_id, decision, min_dscr, min_cashflow, limit)
get_survivors(decision, min_dscr, min_cashflow, limit) ==
    /\ call' = [op |-> "get_survivors", decision |-> decision, min_dscr |-> min_dscr,
                min_cashflow |-> min_cashflow, limit |-> limit,
                rows |-> survivors(decision, min_dscr, min_cashflow, limit)]
    /\ UNCHANGED <<frontend_vars, input_tables, underwriting_results, pipeline_vars>>

SurvivorFinancings == {<<100, 600, 30>>, <<20, 600, 30>>, <<0, 600, 30>>}

SurvivorDealRows ==
    { [property_id |-> 1, asking_price |-> a, estimated_purchase_price |-> None,
       rehab_estimate |-> 0, down_payment_pct |-> f[1], interest_rate |-> f[2],
       term_years |-> f[3]] : a \in {100000, 200000}, f \in SurvivorFinancings }

InitSurvivors ==
    /\ properties = <<[bedrooms |-> 3, has_garage |-> FALSE, city |-> "Detroit"]>>
    /\ deals \in [1..3 -> SurvivorDealRows]
    /\ rent_assumptions \in {<<ra>> : ra \in SnapshotRentRows}
    /\ jurisdiction_rules = <<>>
    /\ underwriting_results = <<>>
    /\ call = NoCall
    /\ snapshot = <<1, 2>>
    /\ evaluation = NoEvaluation
    /\ enrichment = NoEnrichment
    /\ budget = NoBudget
    /\ budget_lock = 0
    /\ workers = <<>>
    /\ FrontendIdle

NextSurvivors ==
    \/ evaluate_snapshot_begin
    \/ evaluate_snapshot_row
    \/ evaluate_snapshot_end
    \/ evaluate_deal(3, FALSE)
    \/ \E decision \in {"PASS", "REJECT"}, min_dscr \in {0, 3500},
          min_cashflow \in {0, 130000}, limit \in 1..MaxLimit :
           get_survivors(decision, min_dscr, min_cashflow, limit)

SpecSurvivors == InitSurvivors /\ [][NextSurvivors]_vars

\* ------------------------------------------------------------ rules engine
\* evaluate_deal_rules applied to any deal context.
DealContextSet ==
    [asking_price : {100000, 200000}, bedrooms : {1, 3}, has_garage : BOOLEAN,
     rent_market : {None, 1200, 1400, 1500, 3200}, rent_ceiling : {None, 1300, 2000},
     inventory_count : {None, 50, 100}, starbucks_minutes : {None, 5, 15}]

InitRules ==
    /\ call \in {[op |-> "context", ctx |-> ctx] : ctx \in DealContextSet}
    /\ properties = <<>>
    /\ deals = <<>>
    /\ rent_assumptions = <<>>
    /\ jurisdiction_rules = <<>>
    /\ underwriting_results = <<>>
    /\ PipelineIdle
    /\ FrontendIdle

\* d = evaluate_deal_rules(ctx)
apply_rules ==
    /\ call.op = "context"
    /\ call' = [op |-> "evaluate_deal_rules", ctx |-> call.ctx,
                d |-> evaluate_deal_rules(call.ctx)]
    /\ UNCHANGED <<frontend_vars, input_tables, underwriting_results, pipeline_vars>>

NextRules == apply_rules

SpecRules == InitRules /\ [][NextRules]_vars

\* ------------------------------------------- frontend: request() and pages
\* calls of request() in one run of the tab
MaxCalls == 3

\* seconds the clock of one run advances
MaxTicks == 3

\* everything the backend specifications change
backend_vars == <<input_tables, underwriting_results, call, pipeline_vars>>

\* a promise fulfilled with response data; the data of a response is the
\* number of mutations the backend had applied when it answered
Fulfilled(v) == [name |-> "ok", value |-> v]

\* the mutating requests the tab has seen complete with success
completed(reqs) ==
    Cardinality({j \in DOMAIN reqs : /\ reqs[j].method # "GET"
                                     /\ reqs[j].pc = "done"
                                     /\ reqs[j].outcome.name = "ok"})

\* request(path, init) up to its first await, as call number i: a cache entry
\* younger than ttl is returned, else a promise registered for the key is
\* awaited, else the fetch starts and, for a GET, its promise is registered.
\* run is the call whose promise this call awaits; after is what the tab had
\* seen complete when the call was made.
request(reqs, infl, i, page, method, path, body, ttl) ==
    LET key == cacheKey(method, path, body)
        r == [page |-> page, method |-> method, key |-> key, ttl |-> ttl,
              aborted |-> FALSE, after |-> completed(reqs), served |-> Pending]
    IN IF method = "GET" /\ ttl > 0 /\ memCache[key] # undefined
          /\ now - memCache[key].at < ttl
       THEN [req |-> r @@ [pc |-> "hit", run |-> 0,
                           outcome |-> Fulfilled(memCache[key].value)],
             inflight |-> infl]
       ELSE IF method = "GET" /\ infl[key] # None
       THEN [req |-> r @@ [pc |-> "joined", run |-> infl[key], outcome |-> Pending],
             inflight |-> infl]
       ELSE [req |-> r @@ [pc |-> "fetching", run |-> i, outcome |-> Pending],
             inflight |-> IF method = "GET" THEN [infl EXCEPT ![key] = i] ELSE infl]

\* abortRef.current?.abort(): the signal of call a is aborted, and the fetch
\* that was given the signal, if it has not delivered its response, rejects
\* its promise with AbortError
abort(reqs, a) ==
    IF a = None THEN reqs
    ELSE [reqs EXCEPT ![a] =
            [@ EXCEPT !.aborted = TRUE,
                      !.pc = IF @ \in {"fetching", "served"} THEN "settled" ELSE @,
                      !.outcome = IF reqs[a].pc \in {"fetching", "served"}
                                  THEN AbortError ELSE @]]

\* the body of a page's load up to its await: the previous controller is
\* aborted (the Properties page has none), setErr(null), and the GET is issued
\* with the signal of a fresh controller
load(reqs0, infl, page) ==
    LET reqs == IF page = "Properties" THEN reqs0 ELSE abort(reqs0, abortRef[page])
        i == Len(reqs) + 1
        c == request(reqs, infl, i, page, "GET", path_of(page), no_body,
                     cacheTtlMs_of(page))
    IN /\ requests' = Append(reqs, c.req)
       /\ inflight' = c.inflight
       /\ abortRef' = IF page = "Properties" THEN abortRef
                      ELSE [abortRef EXCEPT ![page] = i]
       /\ view' = [view EXCEPT ![page].err = FALSE]

\* calls made plus the reloads that the actions still running will make
slots == Len(requests)
         + Cardinality({j \in DOMAIN requests : /\ requests[j].method # "GET"
                                                /\ requests[j].pc # "done"})

\* Dashboard.refresh
refresh ==
    /\ slots < MaxCalls
    /\ load(requests, inflight, "Dashboard")
    /\ UNCHANGED <<backend_vars, memCache, server, now>>

\* Properties.refresh: the same GET without a signal
Properties_refresh ==
    /\ slots < MaxCalls
    /\ load(requests, inflight, "Properties")
    /\ UNCHANGED <<backend_vars, memCache, server, now>>

\* PropertyView.loadAll, as far as the bundle goes
loadAll ==
    /\ slots < MaxCalls
    /\ load(requests, inflight, "PropertyView")
    /\ UNCHANGED <<backend_vars, memCache, server, now>>

\* PropertyView.doAction up to `await fn()`: setErr(null) and the POST of
\* api.enrichProperty
doAction ==
    /\ slots + 1 < MaxCalls
    /\ LET i == Len(requests) + 1
           c == request(requests, inflight, i, "PropertyView", "POST",
                        action_path, body_of("{}"), default_ttl("POST"))
       IN /\ requests' = Append(requests, c.req)
          /\ inflight' = c.inflight
    /\ view' = [view EXCEPT !["PropertyView"].err = FALSE]
    /\ UNCHANGED <<backend_vars, memCache, abortRef, server, now>>

\* the backend answers the fetch of call i: a GET reads the data, a POST that
\* succeeds changes it; ok is whether the response is ok
fetch_served(i, ok) ==
    /\ i \in DOMAIN requests
    /\ requests[i].pc = "fetching"
    /\ LET applied == IF requests[i].method # "GET" /\ ok THEN server + 1 ELSE server
       IN /\ server' = applied
          /\ requests' = [requests EXCEPT ![i].pc = "served",
                              ![i].served = IF ok THEN Fulfilled(applied) ELSE HttpError]
    /\ UNCHANGED <<backend_vars, memCache, inflight, abortRef, view, now>>

\* the rest of `run` once the response is there: throw for a response that is
\* not ok, else read the data and, for a GET with ttl > 0, cache it
run_settled(i) ==
    /\ i \in DOMAIN requests
    /\ requests[i].pc = "served"
    /\ LET r == requests[i]
       IN /\ requests' = [requests EXCEPT ![i].pc = "settled", ![i].outcome = r.served]
          /\ memCache' = IF r.method = "GET" /\ r.ttl > 0 /\ r.served.name = "ok"
                         THEN [memCache EXCEPT ![r.key] = [at |-> now, value |-> r.served.value]]
                         ELSE memCache
    /\ UNCHANGED <<backend_vars, inflight, abortRef, view, server, now>>

\* what the caller of call i does when the call completes with outcome o:
\* refresh and loadAll set the rows or the bundle, return on an AbortError
\* and show any other error (the Properties page shows every error);
\* doAction reloads with loadAll after a success and shows an error
resume(reqs, infl, i, o) ==
    LET page == reqs[i].page
    IN IF reqs[i].method # "GET"
       THEN IF o.name = "ok"
            THEN load(reqs, infl, "PropertyView")
            ELSE /\ requests' = reqs
                 /\ inflight' = infl
                 /\ view' = [view EXCEPT !["PropertyView"].err = TRUE]
                 /\ UNCHANGED abortRef
       ELSE /\ requests' = reqs
            /\ inflight' = infl
            /\ UNCHANGED abortRef
            /\ view' = IF o.name = "ok"
                       THEN [view EXCEPT ![page].data = o.value]
                       ELSE IF o.name = "AbortError" /\ page # "Properties"
                       THEN view
                       ELSE IF page = "PropertyView"
                       THEN [view EXCEPT ![page] = [data |-> None, err |-> TRUE]]
                       ELSE [view EXCEPT ![page].err = TRUE]

\* the mutant of request_return: the finally block leaves the entry in place
request_return_keeps_entry(i) ==
    /\ i \in DOMAIN requests
    /\ requests[i].pc = "settled"
    /\ requests[i].run = i
    /\ resume([requests EXCEPT ![i].pc = "done"], inflight, i, requests[i].outcome)
    /\ UNCHANGED <<backend_vars, memCache, server, now>>

\* `try { return await run } finally { inflight.delete(key) }` of the call
\* that started the fetch, and its caller's continuation
request_return(i) ==
    /\ i \in DOMAIN requests
    /\ requests[i].pc = "settled"
    /\ requests[i].run = i
    /\ resume([requests EXCEPT ![i].pc = "done"],
              IF requests[i].method = "GET"
              THEN [inflight EXCEPT ![requests[i].key] = None] ELSE inflight,
              i, requests[i].outcome)
    /\ UNCHANGED <<backend_vars, memCache, server, now>>

\* `return (await pending)` of a call that found a promise in inflight: it
\* completes as that promise settled, and its caller continues
pending_return(i) ==
    /\ i \in DOMAIN requests
    /\ requests[i].pc = "joined"
    /\ requests[requests[i].run].outcome # Pending
    /\ LET o == requests[requests[i].run].outcome
       IN resume([requests EXCEPT ![i].pc = "done", ![i].outcome = o], inflight, i, o)
    /\ UNCHANGED <<backend_vars, memCache, server, now>>

\* `return hit.value` reaches the caller
cached_return(i) ==
    /\ i \in DOMAIN requests
    /\ requests[i].pc = "hit"
    /\ resume([requests EXCEPT ![i].pc = "done"], inflight, i, requests[i].outcome)
    /\ UNCHANGED <<backend_vars, memCache, server, now>>

\* Date.now() advances by a second
tick ==
    /\ now < MaxTicks * 1000
    /\ now' = now + 1000
    /\ UNCHANGED <<backend_vars, memCache, inflight, requests, abortRef, view, server>>

\* the tab after the module loaded, with the backend idle
InitRequest ==
    /\ properties = <<>>
    /\ deals = <<>>
    /\ rent_assumptions = <<>>
    /\ jurisdiction_rules = <<>>
    /\ underwriting_results = <<>>
    /\ call = NoCall
    /\ PipelineIdle
    /\ FrontendIdle

NextRequest ==
    \/ refresh
    \/ Properties_refresh
    \/ loadAll
    \/ doAction
    \/ \E i \in 1..MaxCalls, ok \in BOOLEAN : fetch_served(i, ok)
    \/ \E i \in 1..MaxCalls : run_settled(i)
    \/ \E i \in 1..MaxCalls : request_return(i)
    \/ \E i \in 1..MaxCalls : pending_return(i)
    \/ \E i \in 1..MaxCalls : cached_return(i)
    \/ tick

SpecRequest == InitRequest /\ [][NextRequest]_vars

\* ------------------------------------------------- evaluation of stored deals
\* One property with one deal, any rent assumption and jurisdiction rule the
\* create/upsert handlers can have stored, and no result yet.
InitEval ==
    /\ properties \in [{1} -> PropertyRows]
    /\ deals \in [{1} -> DealRows({1})]
    /\ rent_assumptions \in {<<>>} \cup {<<ra>> : ra \in RentAssumptionRows({1})}
    /\ jurisdiction_rules \in {<<>>} \cup {<<jr>> : jr \in JurisdictionRuleRows}
    /\ underwriting_results = <<>>
    /\ call = NoCall
    /\ PipelineIdle
    /\ FrontendIdle

NextEval ==
    \E deal_id \in DealIds, rent_is_estimated \in BOOLEAN :
        evaluate_deal(deal_id, rent_is_estimated)

SpecEval == InitEval /\ [][NextEval]_vars

\* ------------------------------------------------------------------ claims
\* what evaluate_deal read for the deal of a result row (the tables do not
\* change between the evaluations of SpecEval)
RowDeal(row) == deals[row.deal_id]
RowProperty(row) == properties[RowDeal(row).property_id]
RowRent(row) == rent_assumption_of(RowDeal(row).property_id)
RowRentMarket(row) == rent_market_of(RowRent(row))
RowRentCeiling(row) == rent_ceiling_of(RowRent(row))
RowHasRent(row) == RowRentMarket(row) # None \/ RowRentCeiling(row) # None
RowRules(row) == evaluate_deal_rules(DealContext(RowDeal(row), RowProperty(row), RowRent(row)))
Rows == {underwriting_results[i] : i \in 1..Len(underwriting_results)}
Reasons(row) == {row.reasons[i] : i \in 1..Len(row.reasons)}

\* C1: whenever a market rent estimate and a rent ceiling are both present,
\* the persisted gross_rent_used is min(market rent, ceiling); it is never
\* the raw market rent when the ceiling is lower.
C1_RentUsedIsMin ==
    \A row \in Rows :
        (RowRentMarket(row) # None /\ RowRentCeiling(row) # None)
        => /\ row.gross_rent_used = Min(RowRentMarket(row), RowRentCeiling(row))
           /\ (RowRentCeiling(row) < RowRentMarket(row)
               => row.gross_rent_used # RowRentMarket(row))

C1_Witness ==
    \E row \in Rows :
        /\ RowRentMarket(row) = 3200
        /\ RowRentCeiling(row) = 2000
        /\ row.gross_rent_used = 2000

\* C2: a deal whose asking price exceeds max_price is rejected by
\* evaluate_deal_rules and its persisted decision is REJECT, whatever the
\* other inputs are.
C2_PriceGateRejects ==
    /\ \A id \in DOMAIN deals :
           deals[id].asking_price > max_price
           => evaluate_deal_rules(DealContext(deals[id], properties[deals[id].property_id],
                                              rent_assumption_of(deals[id].property_id))).decision
              = "REJECT"
    /\ \A row \in Rows :
           RowDeal(row).asking_price > max_price => row.decision = "REJECT"

\* a deal above max_price with every other signal good: three bedrooms, rent
\* above the 1.5% target, healthy proxies, no debt and cash flow above target
C2_Witness ==
    \E row \in Rows :
        /\ RowDeal(row).asking_price = 200000
        /\ RowProperty(row).bedrooms = 3
        /\ row.gross_rent_used = 3200
        /\ RowRent(row).inventory_count = 100
        /\ RowRent(row).starbucks_minutes = 5
        /\ row.dscr = Inf
        /\ row.cash_flow >= target_monthly_cashflow * 100
        /\ row.decision = "REJECT"

\* C3: an evaluation whose rent was flagged as estimated never ends in PASS.
C3_EstimatedRentNeverPasses ==
    (call.op = "evaluate_deal" /\ call.status = 200 /\ call.rent_is_estimated)
    => underwriting_results[Len(underwriting_results)].decision # "PASS"

MissingRentReasons ==
    {"Missing rent inputs (need market rent and/or FMR/ceiling)",
     "Missing rent data -> cannot underwrite"}

\* C4: with no market rent and no ceiling or FMR the evaluation answers 200,
\* persists a row, and that row is a REJECT carrying a missing-rent reason.
C4_MissingRentRejects ==
    /\ \A row \in Rows :
           ~RowHasRent(row)
           => /\ row.decision = "REJECT"
              /\ Reasons(row) \cap MissingRentReasons # {}
    /\ (call.op = "evaluate_deal" /\ call.deal_id \in DOMAIN deals
        /\ rent_market_of(rent_assumption_of(deals[call.deal_id].property_id)) = None
        /\ rent_ceiling_of(rent_assumption_of(deals[call.deal_id].property_id)) = None)
       => /\ call.status = 200
          /\ Len(underwriting_results) >= 1
          /\ underwriting_results[Len(underwriting_results)].deal_id = call.deal_id

\* no rent signal, on a hard-rejected deal whose financing (term 0) would
\* make the underwriting raise
C4_Witness ==
    \E row \in Rows :
        /\ ~RowHasRent(row)
        /\ RowProperty(row).bedrooms < min_bedrooms
        /\ RowDeal(row).term_years = 0
        /\ row.decision = "REJECT"
        /\ call.status = 200

\* C5: a persisted DSCR below dscr_min means the persisted decision is REJECT.
C5_DscrGateRejects ==
    \A row \in Rows : row.dscr < dscr_min => row.decision = "REJECT"

\* the rules said PASS and the DSCR gate rejected
C5_Witness ==
    \E row \in Rows :
        /\ RowHasRent(row)
        /\ RowRules(row).decision = "PASS"
        /\ row.dscr < dscr_min
        /\ row.decision = "REJECT"

\* C6: with DSCR at or above the minimum and cash flow below the target, a
\* rules decision of PASS or REVIEW is persisted as REVIEW, and REJECT is
\* persisted only when the rules decision was REJECT.
C6_CashFlowGateDowngrades ==
    \A row \in Rows :
        (RowHasRent(row) /\ row.dscr >= dscr_min
         /\ row.cash_flow < target_monthly_cashflow * 100)
        => /\ RowRules(row).decision \in {"PASS", "REVIEW"} => row.decision = "REVIEW"
           /\ row.decision = "REJECT" => RowRules(row).decision = "REJECT"

C6_Witness ==
    \E row \in Rows :
        /\ RowHasRent(row)
        /\ row.dscr >= dscr_min
        /\ row.cash_flow < target_monthly_cashflow * 100
        /\ RowRules(row).decision = "PASS"
        /\ row.decision = "REVIEW"

\* C7: a REVIEW or REJECT, of evaluate_deal_rules or persisted, has at least
\* one reason.
C7_NonPassHasReason ==
    /\ \A id \in DOMAIN deals :
           LET d == evaluate_deal_rules(DealContext(deals[id], properties[deals[id].property_id],
                                                    rent_assumption_of(deals[id].property_id)))
           IN d.decision # "PASS" => Len(d.reasons) >= 1
    /\ \A row \in Rows : row.decision # "PASS" => Len(row.reasons) >= 1

\* a hard reject that no gate adds a reason to
C7_Witness ==
    \E row \in Rows :
        /\ RowDeal(row).asking_price > max_price
        /\ row.decision = "REJECT"
        /\ Len(row.reasons) = 1

\* the rows and the errors of a deal in the batch
RowsOfDeal(deal_id) ==
    {i \in 1..Len(underwriting_results) : underwriting_results[i].deal_id = deal_id}
ErrorsOfDeal(deal_id) ==
    {i \in 1..Len(evaluation.errors) : evaluation.errors[i].deal_id = deal_id}
FailingDeals == {k \in 1..Len(snapshot) : row_raises(snapshot[k])}

\* C8: when evaluate_snapshot returns, errors holds exactly one entry for
\* each failing deal, naming its id, and none for the others; every other
\* deal has exactly one persisted result with a valid decision.
C8_PartialFailure ==
    evaluation.pc = "done"
    => /\ Len(evaluation.errors) = Cardinality(FailingDeals)
       /\ \A k \in 1..Len(snapshot) :
              IF k \in FailingDeals
              THEN /\ Cardinality(ErrorsOfDeal(snapshot[k])) = 1
                   /\ RowsOfDeal(snapshot[k]) = {}
              ELSE /\ ErrorsOfDeal(snapshot[k]) = {}
                   /\ Cardinality(RowsOfDeal(snapshot[k])) = 1
                   /\ \A i \in RowsOfDeal(snapshot[k]) :
                          underwriting_results[i].decision \in {"PASS", "REVIEW", "REJECT"}
       /\ evaluation.pass_count + evaluation.review_count + evaluation.reject_count
          = Len(underwriting_results)

\* a malformed asking price in the middle of the snapshot, and results for
\* the deals before and after it
C8_Witness ==
    /\ evaluation.pc = "done"
    /\ Len(snapshot) >= 3
    /\ deals[snapshot[2]].asking_price = Malformed
    /\ ErrorsOfDeal(snapshot[2]) # {}
    /\ RowsOfDeal(snapshot[1]) # {}
    /\ RowsOfDeal(snapshot[3]) # {}

\* the case of C9: the batch started with usage 0 and more deals to enrich
\* than the quota
C9_Case ==
    /\ enrichment.pc = "done"
    /\ enrichment.used_at_start = 0
    /\ Len(enrichment.pending) > budget.quota

Admitted == {w \in DOMAIN workers : workers[w] \in {"admitted", "calling", "enriched", "failed"}}
\* calls that passed the check and have not yet incremented the counter
Unaccounted == {w \in DOMAIN workers : workers[w] = "admitted"}

\* C10: under every interleaving of the concurrent calls the usage counter
\* stays within the quota, also counting the calls that were admitted and
\* have not incremented yet: no two calls are admitted on the same unit.
C10_UsageWithinQuota ==
    /\ budget.used <= budget.quota
    /\ budget.used + Cardinality(Unaccounted) <= budget.quota
    /\ Cardinality(Unaccounted) <= 1

\* more calls than budget: the quota is exhausted, one call was denied
C10_Witness ==
    /\ budget.quota >= 1
    /\ budget.used = budget.quota
    /\ Cardinality(Admitted) >= 1
    /\ \E w \in DOMAIN workers : workers[w] = "denied"
    /\ \E w \in DOMAIN workers : workers[w] = "enriched"


\* C11: the results table is append-only.  No step changes or removes a row
\* that is already stored; a step that changes the table adds exactly one row
\* at its end, and it is a successful evaluation adding a row of the deal it
\* evaluated; a successful evaluation adds its row.
C11_AppendOnly ==
    [][/\ Len(underwriting_results') >= Len(underwriting_results)
       /\ SubSeq(underwriting_results', 1, Len(underwriting_results))
              = underwriting_results
       /\ underwriting_results' # underwriting_results
              => /\ Len(underwriting_results') = Len(underwriting_results) + 1
                 /\ call'.op = "evaluate_deal" /\ call'.status = 200
                 /\ underwriting_results'[Len(underwriting_results')].deal_id
                        = call'.deal_id
       /\ (call' # call /\ call'.op = "evaluate_deal" /\ call'.status = 200)
              => Len(underwriting_results') = Len(underwriting_results) + 1
      ]_vars

\* a deal evaluated twice, its rent assumption changed in between: both rows
\* are stored, and they differ
C11_Witness ==
    /\ Len(underwriting_results) >= 2
    /\ underwriting_results[1].deal_id = underwriting_results[2].deal_id
    /\ underwriting_results[1].decision # underwriting_results[2].decision
\* the result row an evaluation has just stored
LastRow == underwriting_results[Len(underwriting_results)]

\* the rent assumption the last evaluation read: no step of an evaluation
\* changes the rent assumptions
LastRent == rent_assumption_of(deals[call.deal_id].property_id)

\* payment standards as percentages of the FMR
PaymentStandardPcts == 50..150

\* C12: when a FMR and a rent-reasonableness comp both exist, and no override
\* is marked (a payload cannot mark one), the ceiling an evaluation applies is
\* min(FMR * payment_standard_pct, comp) for some payment standard, so the
\* rent it uses is the lower of the market rent and that ceiling.
C12_CeilingFromFmrAndComp ==
    (/\ call.op = "evaluate_deal" /\ call.status = 200
     /\ LastRent # NoRow
     /\ LastRent.section8_fmr # None
     /\ LastRent.rent_reasonableness_comp # None
     /\ LastRent.market_rent_estimate # None)
    => \E pct \in PaymentStandardPcts :
           LastRow.gross_rent_used
               = Min(LastRent.market_rent_estimate,
                     Min((LastRent.section8_fmr * pct) \div 100,
                         LastRent.rent_reasonableness_comp))
\* wordings of the reason for a city without jurisdiction rules
UnknownRulesReasons ==
    {"jurisdiction rules unknown", "Jurisdiction rules unknown", "unknown rules"}

\* C13: when the city of the property has no JurisdictionRule, the evaluation
\* leaves the decision and the score as the underwriting gates set them
\* (neutral friction) and its reasons hold a "jurisdiction rules unknown"
\* reason.
C13_UnknownRulesReason ==
    \A row \in Rows :
        jurisdiction_rule_of(RowProperty(row).city) = NoRow
        => /\ RowHasRent(row)
              => LET gated == underwriting_gates(RowRules(row),
                                  run_underwriting(UnderwritingInputs(RowDeal(row),
                                                       row.gross_rent_used), target_roi))
                 IN row.decision = gated.decision /\ row.score = gated.score
           /\ Reasons(row) \cap UnknownRulesReasons # {}
\* the inputs and outputs of the last run_underwriting
Underwritten == call.op \in {"run_underwriting", "underwriting_gates"}
InDownPayment == (call.inp.purchase_price + call.inp.rehab) * call.inp.down_payment_pct
InLoan == (call.inp.purchase_price + call.inp.rehab) * 100 - InDownPayment
InDenominator ==
    (100 - call.inp.vacancy_rate)
    - (call.inp.maintenance_rate + call.inp.management_rate + call.inp.capex_rate)
InFixedOpex ==
    (call.inp.insurance_monthly + call.inp.taxes_monthly + call.inp.utilities_monthly) * 100
NoDebt == ~call.out.raised /\ call.out.mortgage_payment = 0

\* the sentinels and the DSCR gate, once run_underwriting has returned
C14_Sentinels ==
    /\ NoDebt => call.out.dscr = Inf
    /\ InDownPayment = 0 => call.out.cash_on_cash = Inf
    /\ (call.op = "underwriting_gates" /\ call.out.dscr = Inf)
       => /\ "DSCR below minimum" \notin
                 {call.gated.reasons[i] : i \in 1..Len(call.gated.reasons)}
          /\ call.gated.decision = "REJECT" => call.d.decision = "REJECT"

C14_WitnessNoDownPayment ==
    /\ Underwritten
    /\ call.inp.down_payment_pct = 0
    /\ ~call.out.raised
    /\ call.out.cash_on_cash = Inf
\* C15: the mortgage payment is 0 whenever the loan amount is 0, or negative
\* before it is floored at 0, whatever the interest rate and the term are,
\* rate 0 and term 0 included: nothing is divided, so nothing is raised.
C15_NoLoanNoPayment ==
    /\ \A principal \in {0, -20000}, rate \in {0, 600}, term \in {0, 30} :
           _monthly_mortgage_payment(principal, rate, term) = 0
    /\ (Underwritten /\ InLoan <= 0)
       => ~call.out.raised /\ call.out.mortgage_payment = 0

\* a down payment above the cost, so a negative loan before flooring, at
\* rate 0 and term 0
C15_Witness ==
    /\ Underwritten
    /\ call.inp.down_payment_pct = 120
    /\ InLoan < 0
    /\ call.inp.interest_rate = 0
    /\ call.inp.term_years = 0
    /\ ~call.out.raised
    /\ call.out.mortgage_payment = 0

\* the rents of run_underwriting for its denominator a
C16_Rents ==
    /\ InDenominator <= 0
       => /\ call.out.break_even_rent = Inf
          /\ call.out.min_rent_for_target_roi = Inf
    /\ InDenominator > 0
       => /\ call.out.break_even_rent
                 = ((InFixedOpex + call.out.mortgage_payment) * 100) \div InDenominator
          /\ call.out.min_rent_for_target_roi
                 = ((InFixedOpex + call.out.mortgage_payment
                     + (target_roi * InDownPayment) \div (12 * 100)) * 100)
                   \div InDenominator

C18_DealsReferToProperties ==
    /\ [](\A id \in DOMAIN deals : deals[id].property_id \in DOMAIN properties)
    /\ []((call.op = "create_deal" /\ call.property_id \notin DOMAIN properties)
          => call.status = 400)
    /\ [][/\ (call'.op = "create_deal" /\ call'.status = 400) => deals' = deals
          /\ SubSeq(deals', 1, Len(deals)) = deals
          /\ SubSeq(properties', 1, Len(properties)) = properties]_vars

\* a deal was created on a property, and a later create_deal for a property
\* that does not exist was refused
C18_Witness ==
    /\ Len(properties) = 1
    /\ Len(deals) = 1
    /\ deals[1].property_id = 1
    /\ call.op = "create_deal"
    /\ call.property_id = 2
    /\ call.status = 400
\* the rows of a property in rent_assumptions
RentRowsOf(property_id) ==
    {k \in 1..Len(rent_assumptions) : rent_assumptions[k].property_id = property_id}

C20_Qualifying(q) ==
    {id \in 1..Len(underwriting_results) :
        /\ underwriting_results[id].deal_id \in {snapshot[k] : k \in 1..Len(snapshot)}
        /\ underwriting_results[id].decision = q.decision
        /\ underwriting_results[id].dscr >= q.min_dscr
        /\ underwriting_results[id].cash_flow >= q.min_cashflow}

\* C20: a survivors query returns only stored results of the snapshot that
\* carry the requested decision and have dscr >= min_dscr and cash_flow >=
\* min_cashflow, each at most once and at most limit of them, and when it
\* returns fewer than limit it returns every such result.
C20_SurvivorsFilter ==
    [][(call'.op = "get_survivors" /\ call' # call)
       => LET returned == {call'.rows[i] : i \in 1..Len(call'.rows)}
          IN /\ returned \subseteq C20_Qualifying(call')
             /\ Cardinality(returned) = Len(call'.rows)
             /\ Len(call'.rows) <= call'.limit
             /\ Len(call'.rows) < call'.limit => returned = C20_Qualifying(call')
      ]_vars

\* a query for PASS with thresholds while a PASS result of a deal outside the
\* snapshot is stored, and one result of the snapshot is below a threshold:
\* one survivor is returned
C20_Witness ==
    /\ call.op = "get_survivors"
    /\ call.decision = "PASS"
    /\ call.min_dscr = 3500
    /\ call.limit = 2
    /\ Len(call.rows) = 1
    /\ \E id \in 1..Len(underwriting_results) :
           /\ underwriting_results[id].deal_id = 3
           /\ underwriting_results[id].decision = "PASS"
           /\ underwriting_results[id].dscr >= 3500
    /\ \E id \in 1..Len(underwriting_results) :
           /\ underwriting_results[id].deal_id \in {1, 2}
           /\ underwriting_results[id].decision = "PASS"
           /\ underwriting_results[id].dscr < 3500
\* C21: every successful enrichment call strictly increases the usage the
\* budget endpoint reports, and no step decreases the counter.
C21_UsageIncreases ==
    [][/\ budget'.used >= budget.used
       /\ enrichment'.enriched > enrichment.enriched
              => /\ budget'.used > budget.used
                 /\ budget'.used > enrichment'.used_at_start
      ]_vars

\* a batch that started with usage 1 enriched two deals: usage is 3
C21_Witness ==
    /\ enrichment.used_at_start = 1
    /\ enrichment.enriched = 2
    /\ get_budget_usage.used = 3
\* the deal of a row is hard rejected: price above max_price, or bedrooms
\* below min_bedrooms
HardRejected(row) ==
    \/ RowDeal(row).asking_price > max_price
    \/ RowProperty(row).bedrooms < min_bedrooms

\* C22: the result of a hard-rejected deal (price above max_price, or
\* bedrooms below min_bedrooms) has score 0 and exactly one reason; no later
\* rule or gate adds a reason or changes the score.
C22_HardRejectSingleReason ==
    \A row \in Rows :
        HardRejected(row) => row.score = 0 /\ Len(row.reasons) = 1
\* C23: the score evaluate_deal_rules returns lies in [0, 100], and its
\* decision follows the banding: PASS iff score >= 75, REVIEW iff
\* 55 <= score < 75, REJECT iff score < 55.  A result forced by a hard gate
\* is REJECT with score 0.
C23_ScoreBanding ==
    \A row \in Rows :
        LET d == RowRules(row)
        IN /\ 0 <= d.score /\ d.score <= 100
           /\ d.decision = "PASS" <=> d.score >= 75
           /\ d.decision = "REVIEW" <=> (55 <= d.score /\ d.score < 75)
           /\ d.decision = "REJECT" <=> d.score < 55
           /\ HardRejected(row) => d.decision = "REJECT" /\ d.score = 0

\* rules outputs just below and at the PASS band: 70 is REVIEW
C23_Witness ==
    \E row \in Rows :
        /\ ~HardRejected(row)
        /\ RowRules(row).score = 70
        /\ RowRules(row).decision = "REVIEW"
\* the context and the decision of the last evaluate_deal_rules
RulesApplied == call.op = "evaluate_deal_rules"
CtxRent == _rent_used(call.ctx.rent_market, call.ctx.rent_ceiling)
CtxHardGate ==
    call.ctx.asking_price > max_price \/ call.ctx.bedrooms < min_bedrooms
CtxBelowMin == CtxRent * 1000 < call.ctx.asking_price * rent_rule_min_pct
CtxAtTarget == CtxRent * 1000 >= call.ctx.asking_price * rent_rule_target_pct
DecisionReasons == {call.d.reasons[i] : i \in 1..Len(call.d.reasons)}

\* what each reason of the scored rules adds to the score
ReasonDelta(reason) ==
    CASE reason = "Garage present (rehab/maintenance risk flag)" -> -5
      [] reason = "Missing rent inputs (need market rent and/or FMR/ceiling)" -> -20
      [] reason = "Meets 1.5% target rent rule" -> 15
      [] reason = "Meets 1.3% minimum rent rule" -> 5
      [] reason = "Market rent exceeds Section 8 ceiling (rent will be capped)" -> -5
      [] reason = "Missing inventory count proxy" -> -5
      [] reason = "Inventory proxy low" -> -15
      [] reason = "Inventory proxy healthy" -> 10
      [] reason = "Starbucks proxy good (<= 10 minutes)" -> 10
      [] reason = "Starbucks proxy weak (> 10 minutes)" -> -5
      [] OTHER -> 0

RECURSIVE SumDeltas(_)
SumDeltas(reasons) ==
    IF reasons = <<>> THEN 0
    ELSE ReasonDelta(Head(reasons)) + SumDeltas(Tail(reasons))

\* C24 as stated: when a rent is available (and no hard gate applies),
\* evaluate_deal_rules decides REJECT exactly when rent < asking_price *
\* rent_rule_min_pct; otherwise it scores the target above the minimum and
\* records the threshold met.
C24_RejectsExactlyBelowMin ==
    (RulesApplied /\ CtxRent # None /\ ~CtxHardGate)
    => /\ call.d.decision = "REJECT" <=> CtxBelowMin
       /\ ~CtxBelowMin
          => IF CtxAtTarget
             THEN "Meets 1.5% target rent rule" \in DecisionReasons
             ELSE "Meets 1.3% minimum rent rule" \in DecisionReasons

\* C24 amended: when a rent is available and no hard gate applies, the rent
\* rule rejects (REJECT, score 0, its reason alone) exactly when rent <
\* asking_price * rent_rule_min_pct; otherwise the score is 50 plus the
\* deltas of the recorded reasons, +15 for the target threshold and +5 for the
\* minimum, the threshold met is recorded, and the decision is the band of
\* that score, which may still be REJECT.
C24_RentRule ==
    (RulesApplied /\ CtxRent # None /\ ~CtxHardGate)
    => /\ "Fails 1.3% rule" \in DecisionReasons <=> CtxBelowMin
       /\ CtxBelowMin => call.d = Decision("REJECT", 0, <<"Fails 1.3% rule">>)
       /\ ~CtxBelowMin
          => /\ ("Meets 1.5% target rent rule" \in DecisionReasons) <=> CtxAtTarget
             /\ ("Meets 1.3% minimum rent rule" \in DecisionReasons) <=> ~CtxAtTarget
             /\ call.d.score = Max(0, Min(100, 50 + SumDeltas(call.d.reasons)))
             /\ call.d.decision = band(call.d.score)

\* a rent that meets the minimum only, on a deal whose score ends below 55:
\* REJECT although the rent rule did not reject
C24_Witness ==
    /\ RulesApplied
    /\ ~CtxHardGate
    /\ CtxRent = 1400
    /\ call.ctx.asking_price = 100000
    /\ "Meets 1.3% minimum rent rule" \in DecisionReasons
    /\ call.d.decision = "REJECT"
    /\ call.d.score > 0
\* the jurisdiction rule of the property of a row asks for 45 days or more
RowSlowJurisdiction(row) ==
    LET jr == jurisdiction_rule_of(RowProperty(row).city)
    IN jr # NoRow /\ jr.processing_days # None /\ jr.processing_days >= 45

\* C25: whenever the jurisdiction rule of the property's city has
\* processing_days >= 45, the stored result of an evaluation carries the
\* processing-delay-risk reason, on every path of evaluate_deal.
C25_DelayRiskAlwaysFlagged ==
    \A row \in Rows :
        RowSlowJurisdiction(row)
        => "Jurisdiction processing delay risk" \in Reasons(row)
\* C26: every stored result has a decision inside the band of its score,
\* also after the DSCR, cash-flow and jurisdiction gates: PASS implies
\* score >= 75, REVIEW implies 55 <= score < 75, REJECT implies score < 55.
C26_StoredDecisionInBand ==
    \A row \in Rows :
        /\ row.decision = "PASS" => row.score >= 75
        /\ row.decision = "REVIEW" => (55 <= row.score /\ row.score < 75)
        /\ row.decision = "REJECT" => row.score < 55

\* the rules said PASS with 85 and the jurisdiction gate stored REVIEW with 70
C26_Witness ==
    \E row \in Rows :
        /\ RowRules(row).decision = "PASS"
        /\ RowRules(row).score = 85
        /\ "Jurisdiction processing delay risk" \in Reasons(row)
        /\ row.decision = "REVIEW"
        /\ row.score = 70

\* REJECT < REVIEW < PASS
Rank(decision) ==
    CASE decision = "REJECT" -> 0 [] decision = "REVIEW" -> 1 [] decision = "PASS" -> 2

\* C27: the gates of evaluate_deal only downgrade: the stored decision is
\* never better than the decision of evaluate_deal_rules, and the stored
\* score is never above the rules score.
C27_GatesOnlyDowngrade ==
    \A row \in Rows :
        /\ Rank(row.decision) <= Rank(RowRules(row).decision)
        /\ row.score <= RowRules(row).score

\* the rules said PASS and the gates stored REJECT with a lower score
C27_Witness ==
    \E row \in Rows :
        /\ RowRules(row).decision = "PASS"
        /\ row.decision = "REJECT"
        /\ row.score < RowRules(row).score
\* the calls of request() that have returned to their caller
Returned == {i \in DOMAIN requests : requests[i].pc = "done"}

\* the calls that started a fetch of their own
Fetchers == {i \in DOMAIN requests : requests[i].run = i}

\* C28: a call of request() whose own signal was never aborted is never
\* rejected with AbortError: a reload that aborts the previous load and issues
\* the same GET again is not failed by the abort of the load it replaced.
C28_NoForeignAbort ==
    \A i \in Returned :
        ~requests[i].aborted => requests[i].outcome # AbortError

\* C29: a GET that request() returns with success never carries data older
\* than a mutation the tab had seen complete before the GET was issued: its
\* data counts at least the mutations completed by then.
C29_ReloadSeesMutation ==
    \A i \in Returned :
        (requests[i].method = "GET" /\ requests[i].outcome.name = "ok")
            => requests[i].outcome.value >= requests[i].after

\* C30: for every GET key at most one fetch is outstanding, a call that
\* awaits a pending promise awaits the one of a fetch for its own key, and the
\* in-flight entry of a key names a call that started a fetch for it and has
\* not returned, so a fetch that settled and returned has left no entry.
C30_OneFetchPerKey ==
    \A k \in GetKeys :
        /\ Cardinality({i \in Fetchers : /\ requests[i].key = k
                                         /\ requests[i].pc \in {"fetching", "served"}}) <= 1
        /\ \A i \in DOMAIN requests :
               (requests[i].key = k /\ requests[i].pc = "joined")
                   => (requests[i].run \in Fetchers /\ requests[requests[i].run].key = k)
        /\ inflight[k] # None
               => /\ inflight[k] \in Fetchers
                  /\ requests[inflight[k]].key = k
                  /\ requests[inflight[k]].pc \in {"fetching", "served", "settled"}
        /\ \A i \in Fetchers :
               (requests[i].key = k /\ requests[i].pc \in {"fetching", "served", "settled"})
                   => inflight[k] = i

\* a fetch of a key settled and returned, a later call started a new fetch of
\* the key, and a third call awaits that fetch's promise
C30_Witness ==
    \E i, j, l \in DOMAIN requests :
        /\ i < j
        /\ j < l
        /\ requests[i].key = requests[j].key
        /\ requests[l].key = requests[j].key
        /\ i \in Fetchers
        /\ requests[i].pc = "done"
        /\ j \in Fetchers
        /\ requests[j].pc = "fetching"
        /\ requests[l].pc = "joined"
        /\ requests[l].run = j
        /\ inflight[requests[j].key] = j
====
